---- MODULE Spec2Model ----
(***************************************************************************)
(* EuroLanka itinerary backend: the itinerary pipeline of engine.js        *)
(* (ItineraryEngine.processItinerary and its helpers), the map snapshot    *)
(* client of mapSS.js (captureMapScreenshot, ssweb) and the DOCX to PDF    *)
(* converter (convertDocxToPdf).                                           *)
(*                                                                         *)
(* JavaScript strings that the code takes apart (routes, output paths)     *)
(* are sequences of one-character strings, so that split, replace, join    *)
(* and endsWith are computed the way the code computes them.               *)
(***************************************************************************)
EXTENDS Integers, Sequences, FiniteSets, TLC

\* ------------------------------------------------------------------------
\* Bounds of the model
\* ------------------------------------------------------------------------
\* longest route string enumerated character by character
MaxRouteLen == 7

\* most daily plans in a stored itinerary
MaxPlans == 1

\* number of POST /api/generate requests of a run
MaxRequests == 2

\* daily plans of an itinerary handed to formatItineraryData
MaxFormatPlans == 2

\* numberOfDays of such an itinerary, besides the long stays of DayCounts
MaxDayCount == 3

\* ------------------------------------------------------------------------
\* Program constants
\* ------------------------------------------------------------------------
maxAttempts == 30

sleepMs == 2000

\* ------------------------------------------------------------------------
\* JavaScript values of the free-form payload fields
\* ------------------------------------------------------------------------
Undefined == [t |-> "undefined", s |-> <<>>]

\* a truthy value that is not a string (a number, an object)
NonString == [t |-> "object", s |-> <<>>]

Str(s) == [t |-> "string", s |-> s]

\* JavaScript truthiness of such a value: undefined and "" are falsy
Truthy(v) == v.t = "object" \/ (v.t = "string" /\ v.s # <<>>)

IsString(v) == v.t = "string"

\* dailyPlans: undefined, a truthy non-array, or an array of days
PlansUndefined == [t |-> "undefined", a |-> <<>>]

PlansNonArray == [t |-> "object", a |-> <<>>]

PlansArray(a) == [t |-> "array", a |-> a]

IsSpace(c) == c = " "

\* ------------------------------------------------------------------------
\* String helpers (String.prototype.split / join / replace / endsWith)
\* ------------------------------------------------------------------------
\* first index at which sep occurs in s, 0 when it does not occur
IndexOf(s, sep) ==
    LET hits == {i \in 1..(Len(s) - Len(sep) + 1) : SubSeq(s, i, i + Len(sep) - 1) = sep}
    IN  IF hits = {} THEN 0 ELSE CHOOSE i \in hits : \A j \in hits : i <= j

RECURSIVE split(_, _)
split(s, sep) ==
    LET i == IndexOf(s, sep)
    IN  IF i = 0 THEN <<s>>
        ELSE <<SubSeq(s, 1, i - 1)>> \o split(SubSeq(s, i + Len(sep), Len(s)), sep)

RECURSIVE join(_, _)
join(parts, sep) ==
    IF parts = <<>> THEN <<>>
    ELSE IF Len(parts) = 1 THEN parts[1]
    ELSE parts[1] \o sep \o join(Tail(parts), sep)

\* part.replace(/\s+/g, '')
removeSpaces(s) == SelectSeq(s, LAMBDA c : ~IsSpace(c))

\* number of whitespace characters at the head of s
RECURSIVE leadingSpaces(_)
leadingSpaces(s) ==
    IF s # <<>> /\ IsSpace(Head(s)) THEN 1 + leadingSpaces(Tail(s)) ELSE 0

\* route.replace(/\s*-\s*/g, '-'): leftmost greedy matches, left to right
RECURSIVE cleanedRoute(_)
cleanedRoute(s) ==
    IF s = <<>> THEN <<>>
    ELSE LET k == leadingSpaces(s)
         IN  IF k < Len(s) /\ s[k + 1] = "-"
             THEN LET rest == SubSeq(s, k + 2, Len(s))
                  IN  <<"-">> \o cleanedRoute(SubSeq(rest, leadingSpaces(rest) + 1, Len(rest)))
             ELSE <<Head(s)>> \o cleanedRoute(Tail(s))

\* outputFilePath.endsWith('.pdf')
endsWith(s, suffix) ==
    Len(s) >= Len(suffix) /\ SubSeq(s, Len(s) - Len(suffix) + 1, Len(s)) = suffix

\* ------------------------------------------------------------------------
\* Route handling of engine.js
\* ------------------------------------------------------------------------
\* processItinerary, step 3: whitespace is removed from the first ' - ' part
formattedRoute(route) ==
    LET parts == split(route, <<" ", "-", " ">>)
    IN  join([i \in 1..Len(parts) |->
                 IF i = 1 THEN removeSpaces(parts[i]) ELSE parts[i]],
             <<" ", "-", " ">>)

\* generateRouteScreenshot: cleanedRoute.split('-').filter(Boolean)
places(route) == SelectSeq(split(cleanedRoute(route), <<"-">>), LAMBDA p : p # <<>>)

\* mutant: one place is enough
tooFewPlaces_one(ps) == Len(ps) < 1

\* generateRouteScreenshot: if (places.length < 2) throw
tooFewPlaces(ps) == Len(ps) < 2

\* generateRouteScreenshot: the string handed to captureMapScreenshot
mapRoute(ps) ==
    <<"&", "s", "t", "a", "r", "t", ";">> \o ps[1] \o <<"&">>
        \o join(SubSeq(ps, 2, Len(ps) - 1), <<"&">>)
        \o <<"&", "e", "n", "d", ";">> \o ps[Len(ps)]

\* ------------------------------------------------------------------------
\* Record store: itineraries.json and users.json
\* ------------------------------------------------------------------------
\* The itineraries document maps user id -> itinerary key -> record.  It is
\* kept as the sequence of its (user, key, record) entries in the order the
\* nested for-in loops of getItineraryById visit them.  A record is
\*   [id, wrapped, data]: wrapped says that the payload sits under .data
\*   (as POST /api/generate writes it); a record that is not wrapped carries
\*   the payload fields itself.  "" stands for an absent id, 0 for an absent
\*   numberOfDays.  tourStartDate is kept as the calendar date that
\*   new Date(tourStartDate) denotes in the zone of the server.  timestamp and lastModified are the ISO strings of the
\*   record, kept as the milliseconds they denote.
Entry(u, k, r) == [user |-> u, key |-> k, rec |-> r]

Payload(id, route, plans, nd) ==
    [id |-> id, route |-> route, dailyPlans |-> plans, numberOfDays |-> nd,
     tourStartDate |-> [y |-> 2024, m |-> 1, d |-> 31]]

Record(id, wrapped, data) ==
    [id |-> id, wrapped |-> wrapped, data |-> data, timestamp |-> 0, lastModified |-> 0]

\* mutant: the payload id is not compared, only the presence of a payload
matchesId_noDataCompare(e, itineraryId) ==
    \/ e.key = itineraryId
    \/ e.rec.id = itineraryId
    \/ e.rec.wrapped

\* getItineraryById: the condition of the inner if
matchesId(e, itineraryId) ==
    \/ e.key = itineraryId
    \/ e.rec.id = itineraryId
    \/ (e.rec.wrapped /\ e.rec.data.id = itineraryId)

\* getItineraryById: <<>> for null, else the record spread with userId set to
\* the user key it is nested under
getItineraryById(st, itineraryId) ==
    LET hits == {i \in 1..Len(st) : matchesId(st[i], itineraryId)}
    IN  IF hits = {} THEN <<>>
        ELSE LET i == CHOOSE h \in hits : \A j \in hits : h <= j
             IN  <<[id |-> st[i].rec.id, wrapped |-> st[i].rec.wrapped,
                    data |-> st[i].rec.data, userId |-> st[i].user]>>

\* processItinerary: itinerary.data || itinerary
itineraryData(itin) == itin.data

\* mutant: the Array.isArray test is missing
validatePayload_noArrayCheck(d) ==
    IF ~Truthy(d.route) \/ ~IsString(d.route) THEN "InvalidRoute"
    ELSE IF d.dailyPlans.t = "undefined" THEN "InvalidDailyPlans"
    ELSE ""

\* processItinerary: the two validation throws, "" when the payload passes
validatePayload(d) ==
    IF ~Truthy(d.route) \/ ~IsString(d.route) THEN "InvalidRoute"
    ELSE IF d.dailyPlans.t = "undefined" \/ d.dailyPlans.t # "array" THEN "InvalidDailyPlans"
    ELSE ""

\* mutant: only the prefixed id is compared
userMatches_prefixOnly(u, userId) == u.id = <<"user_">> \o userId

\* getCompanyInfo: users.find(u => u.id === `user_${userId}` || u.id === userId)
userMatches(u, userId) == u.id = <<"user_">> \o userId \/ u.id = userId

\* getCompanyInfo: user ? user.companyInfo : null ("" for null or undefined)
getCompanyInfo(us, userId) ==
    LET hits == {i \in 1..Len(us) : userMatches(us[i], userId)}
    IN  IF hits = {} THEN ""
        ELSE us[CHOOSE h \in hits : \A j \in hits : h <= j].companyInfo

\* paths of the files of one itinerary
screenshotPathOf(id) == <<"db/img/itinerary/", id, ".", "j", "p", "g">>

docxPathOf(id) == <<"db/temp/tempStore/", id, ".", "d", "o", "c", "x">>

pdfPathOf(id) == <<"db/temp/tempStore/", id, ".", "p", "d", "f">>

\* ------------------------------------------------------------------------
\* formatItineraryData
\* ------------------------------------------------------------------------
\* Of the formatted object the model keeps the day and night totals, the
\* dates and the three tables; of a daily plan it keeps place,
\* overnightStay, hotel and customHotel.  "" stands for an absent or empty
\* string.
isLeapYear(y) == (y % 4 = 0 /\ y % 100 # 0) \/ y % 400 = 0

\* mutant: February always has 28 days
daysInMonth_noLeap(y, m) ==
    IF m = 2 THEN 28
    ELSE IF m \in {4, 6, 9, 11} THEN 30
    ELSE 31

daysInMonth(y, m) ==
    IF m = 2 THEN (IF isLeapYear(y) THEN 29 ELSE 28)
    ELSE IF m \in {4, 6, 9, 11} THEN 30
    ELSE 31

\* Date.prototype.setDate: day n of the month of date, carried into the
\* following or preceding months when n is outside the month
RECURSIVE setDate(_, _)
setDate(date, n) ==
    IF n > daysInMonth(date.y, date.m)
    THEN setDate(IF date.m = 12 THEN [y |-> date.y + 1, m |-> 1, d |-> 1]
                 ELSE [y |-> date.y, m |-> date.m + 1, d |-> 1],
                 n - daysInMonth(date.y, date.m))
    ELSE IF n < 1
    THEN LET prev == IF date.m = 1 THEN [y |-> date.y - 1, m |-> 12, d |-> 1]
                     ELSE [y |-> date.y, m |-> date.m - 1, d |-> 1]
         IN  setDate(prev, n + daysInMonth(prev.y, prev.m))
    ELSE [y |-> date.y, m |-> date.m, d |-> n]

monthShort ==
    <<"Jan", "Feb", "Mar", "Apr", "May", "Jun", "Jul", "Aug", "Sep", "Oct", "Nov", "Dec">>

\* toLocaleDateString('en-GB', {day: 'numeric', month: 'short', year: 'numeric'})
formatDateForDisplay(date) ==
    ToString(date.d) \o " " \o monthShort[date.m] \o " " \o ToString(date.y)

\* mutant: the nights are the days
totalNights_asDays(itin) == itin.numberOfDays

totalNights(itin) == itin.numberOfDays - 1

\* endDate: the copy of startDate after setDate
endDate(itin) ==
    setDate(itin.tourStartDate, itin.tourStartDate.d + itin.numberOfDays - 1)

\* day.hotel === 'custom' ? day.customHotel : day.hotel
hotelName(day) == IF day.hotel = "custom" THEN day.customHotel ELSE day.hotel

overnightText(day) ==
    IF ~day.overnightStay THEN "No overnight stay"
    ELSE IF hotelName(day) # "" THEN "Overnight Stay: " \o hotelName(day)
    ELSE "Overnight stay"

\* index is the index of the JavaScript array, from 0
itbTable(plans) ==
    [i \in 1..Len(plans) |->
        LET index == i - 1
        IN  [dayNumber |-> "Day " \o ToString(index + 1), place |-> plans[i].place]]

iDetail(plans, startDate) ==
    [i \in 1..Len(plans) |->
        LET index == i - 1
            currentDate == setDate(startDate, startDate.d + index)
        IN  [iDetailTitle |-> "Day " \o ToString(index + 1) \o " - " \o plans[i].place
                              \o " (" \o formatDateForDisplay(currentDate) \o ")",
             isOvernightStay |-> overnightText(plans[i])]]

\* the filter of the accommodation table
hasAccommodation(day) == day.overnightStay /\ (day.hotel # "" \/ day.customHotel # "")

aTable(plans) ==
    LET kept == SelectSeq(plans, hasAccommodation)
    IN  [i \in 1..Len(kept) |-> [aCity |-> kept[i].place, accomodation |-> hotelName(kept[i])]]

formatItineraryData(itin, company, screenshotPath) ==
    [totalDays |-> ToString(itin.numberOfDays),
     totalNights |-> ToString(totalNights(itin)),
     travelDatePeriod |-> formatDateForDisplay(itin.tourStartDate) \o " - "
                          \o formatDateForDisplay(endDate(itin)),
     itbTable |-> itbTable(itin.dailyPlans.a),
     iDetail |-> iDetail(itin.dailyPlans.a, itin.tourStartDate),
     aTable |-> aTable(itin.dailyPlans.a),
     departureDate |-> formatDateForDisplay(endDate(itin)),
     routeMap |-> screenshotPath]

\* ------------------------------------------------------------------------
\* generateDocument: its decisions
\* ------------------------------------------------------------------------
\* the image tag values of the template
ImageTags == {"companyLogo", "coverImage", "routeMap"}

\* images.paths[tagValue] of a tag without configured path
NoPath == <<>>

\* fs.existsSync: an asset is named by a one-element path, a written file
\* by its full path
existsSync(p, as, fs) == (Len(p) = 1 /\ p[1] \in as) \/ p \in fs

\* path.dirname of the paths in use
dirname(p) ==
    IF p[1] = "db/temp/tempStore/" THEN "db/temp/tempStore"
    ELSE IF p[1] = "out/" THEN "out"
    ELSE "."

\* mutant: the image file is read without the existence check
getImage_noExistsCheck(images, tagValue, as, fs) ==
    IF images.paths[tagValue] = NoPath THEN "NoImagePath" ELSE ""

\* getImage of the image module: the error it throws, "" when it returns
\* the image
getImage(images, tagValue, as, fs) ==
    LET imagePath == images.paths[tagValue]
    IN  IF imagePath = NoPath THEN "NoImagePath"
        ELSE IF ~existsSync(imagePath, as, fs) THEN "ImageNotFound"
        ELSE ""

\* the error generateDocument throws, "" when the document is rendered.
\* data.refs are the tag values of the image tags the template resolves
\* against the data, in template order; o is whether docxtemplater accepts
\* the template.
generateDocumentError(options, as, fs, o) ==
    IF \/ options.templatePath = <<>> \/ ~options.data.present
       \/ ~options.images.present \/ options.outputPath = <<>>
    THEN "MissingParameters"
    ELSE IF ~existsSync(options.templatePath, as, fs) THEN "TemplateNotFound"
    ELSE IF o = "template_error" THEN "TemplateError"
    ELSE LET refs == options.data.refs
             bad == {i \in 1..Len(refs) : getImage(options.images, refs[i], as, fs) # ""}
         IN  IF bad = {} THEN ""
             ELSE getImage(options.images,
                           refs[CHOOSE i \in bad : \A j \in bad : i <= j], as, fs)

\* the options generateItineraryDocument passes: the data names the three
\* images, _images.paths locates them
documentOptions(id) ==
    [templatePath |-> <<"template.docx">>,
     data |-> [present |-> TRUE, refs |-> <<"companyLogo", "coverImage", "routeMap">>],
     images |-> [present |-> TRUE,
                 paths |-> [t \in ImageTags |->
                              IF t = "companyLogo" THEN <<"logo">>
                              ELSE IF t = "coverImage" THEN <<"cover">>
                              ELSE screenshotPathOf(id)]],
     outputPath |-> docxPathOf(id)]

\* no call of generateDocument made
NoOptions ==
    [templatePath |-> <<>>, data |-> [present |-> FALSE, refs |-> <<>>],
     images |-> [present |-> FALSE, paths |-> [t \in ImageTags |-> NoPath]],
     outputPath |-> <<>>]

\* ------------------------------------------------------------------------
\* convertDocxToPdf: its decisions
\* ------------------------------------------------------------------------
\* mutant: the extension is compared without its dot
convValidate_noDot(inputExists, out) ==
    IF ~inputExists THEN "InputNotFound"
    ELSE IF out = <<>> \/ ~endsWith(out, <<"p", "d", "f">>) THEN "OutputNotPdf"
    ELSE ""

\* the two validation throws, "" when the arguments pass
convValidate(inputExists, out) ==
    IF ~inputExists THEN "InputNotFound"
    ELSE IF out = <<>> \/ ~endsWith(out, <<".", "p", "d", "f">>) THEN "OutputNotPdf"
    ELSE ""

\* mutant: the attempt ceiling is not checked
pollStep_noTimeout(status, n) ==
    IF status = "done" THEN "break"
    ELSE IF status = "failed" THEN "ConversionFailedOnServer"
    ELSE "continue"

\* mutant: the attempt ceiling is checked before the status
pollStep_timeoutFirst(status, n) ==
    IF n = maxAttempts THEN "ConversionTimeout"
    ELSE IF status = "done" THEN "break"
    ELSE IF status = "failed" THEN "ConversionFailedOnServer"
    ELSE "continue"

\* the body of the poll loop after the status response arrived
pollStep(status, n) ==
    IF status = "done" THEN "break"
    ELSE IF status = "failed" THEN "ConversionFailedOnServer"
    ELSE IF n = maxAttempts THEN "ConversionTimeout"
    ELSE "continue"

\* ------------------------------------------------------------------------
\* The document routes of the server: their decisions
\* ------------------------------------------------------------------------
\* path.basename of a path whose first element is its directory
basename(p) == Tail(p)

NoResponse == [status |-> 0, itineraryPath |-> <<>>]

\* mutant: success is answered whatever processItinerary returned
downloadResponse_alwaysSuccess(res, documentPath) ==
    [status |-> 200, itineraryPath |-> <<"/document/">> \o basename(documentPath)]

\* POST /api/download after processItinerary settled
downloadResponse(res, documentPath) ==
    IF res = "success"
    THEN [status |-> 200, itineraryPath |-> <<"/document/">> \o basename(documentPath)]
    ELSE [status |-> 500, itineraryPath |-> <<>>]

NoDocument == [filename |-> <<>>, status |-> 0, contentType |-> "", complete |-> FALSE]

\* GET /document/:filename; complete tells whether the streamed file had
\* been written to its end
documentResponse(filename, fs, part) ==
    LET filePath == <<"db/temp/tempStore/">> \o filename
    IN  IF filePath \notin fs
        THEN [filename |-> filename, status |-> 404, contentType |-> "", complete |-> FALSE]
        ELSE IF endsWith(filename, <<".", "p", "d", "f">>)
        THEN [filename |-> filename, status |-> 200, contentType |-> "application/pdf",
              complete |-> filePath \notin part]
        ELSE IF endsWith(filename, <<".", "d", "o", "c", "x">>)
        THEN [filename |-> filename, status |-> 200,
              contentType |-> "application/vnd.openxmlformats-officedocument.wordprocessingml.document",
              complete |-> filePath \notin part]
        ELSE [filename |-> filename, status |-> 400, contentType |-> "", complete |-> FALSE]

\* ------------------------------------------------------------------------
\* POST /api/generate and GET /api/itineraries: their decisions
\* ------------------------------------------------------------------------
Requests == 1..MaxRequests

\* the identifier: Date.now() and the nine random characters; rnd stands for
\* the random part, taken to differ between two requests
newItineraryId(now, rnd) == "itin_" \o ToString(now) \o "_" \o ToString(rnd)

\* the itinerary object of the request
newItinerary(itineraryId, userId, timestamp, body) ==
    Entry(userId, itineraryId,
          [id |-> itineraryId, wrapped |-> TRUE, data |-> body,
           timestamp |-> timestamp, lastModified |-> timestamp])

\* mutant: the file is not read, every request starts from an empty object
readItineraries_empty(as, st) == <<>>

\* the content read from itineraries.json, {} when the file does not exist
readItineraries(as, st) == IF "itineraries.json" \in as THEN st ELSE <<>>

\* mutant: the user's object is replaced by a new one on every request
putItinerary_newUserObject(st, e) ==
    LET others == {i \in 1..Len(st) : st[i].user # e.user}
        F[i \in 0..Len(st)] ==
            IF i = 0 THEN <<>>
            ELSE IF i \in others THEN Append(F[i - 1], st[i]) ELSE F[i - 1]
    IN  Append(F[Len(st)], e)

\* itineraries[userId][itineraryId] = itinerary, with the user's object
\* created when missing; a new key comes last among the user's keys
putItinerary(st, e) ==
    LET same == {i \in 1..Len(st) : st[i].user = e.user /\ st[i].key = e.key}
        mine == {i \in 1..Len(st) : st[i].user = e.user}
    IN  IF same # {} THEN [i \in 1..Len(st) |-> IF i \in same THEN e ELSE st[i]]
        ELSE IF mine = {} THEN Append(st, e)
        ELSE LET last == CHOOSE i \in mine : \A j \in mine : j <= i
             IN  SubSeq(st, 1, last) \o <<e>> \o SubSeq(st, last + 1, Len(st))

\* users[userId] on the array of users.json: the element when userId is the
\* text of an index, undefined for every other string; 0 stands for undefined
userIndex(us, userId) ==
    LET hits == {i \in 1..Len(us) : userId = <<ToString(i - 1)>>}
    IN  IF hits = {} THEN 0 ELSE CHOOSE i \in hits : TRUE

\* users[userId].noOfItineraries = (users[userId].noOfItineraries || 0) + 1
countUpdate(us, userId) ==
    [us EXCEPT ![userIndex(us, userId)].noOfItineraries = @ + 1]

NoRequest ==
    [pc |-> "idle", userId |-> <<>>, data |-> Payload("", Undefined, PlansUndefined, 0),
     itineraryId |-> "", timestamp |-> 0, itineraries |-> <<>>, users |-> <<>>,
     status |-> 0]

\* the itinerary object of a received request
itineraryOf(q) == newItinerary(q.itineraryId, q.userId, q.timestamp, q.data)

\* mutant: the comparator is a - b
newestFirst_ascending(a, b) == a.rec.timestamp <= b.rec.timestamp

\* the comparator new Date(b.timestamp) - new Date(a.timestamp) is not
\* positive: a stays in front of b
newestFirst(a, b) == b.rec.timestamp - a.rec.timestamp <= 0

\* Array.prototype.sort with that comparator (stable)
RECURSIVE sortItineraries(_)
sortItineraries(list) ==
    IF list = <<>> THEN <<>>
    ELSE LET rest == sortItineraries(Tail(list))
             a == Head(list)
             front == {i \in 0..Len(rest) : \A j \in 1..i : ~newestFirst(a, rest[j])}
             k == CHOOSE i \in front : \A j \in front : j <= i
         IN  SubSeq(rest, 1, k) \o <<a>> \o SubSeq(rest, k + 1, Len(rest))

NoList == [userId |-> <<>>, status |-> 0, count |-> 0, itineraries |-> <<>>]

\* GET /api/itineraries
listResponse(userId, as, st) ==
    IF userId = <<>> THEN [NoList EXCEPT !.status = 400]
    ELSE IF "itineraries.json" \notin as THEN [NoList EXCEPT !.userId = userId, !.status = 500]
    ELSE LET userItineraries == SelectSeq(st, LAMBDA e : e.user = userId)
             sorted == sortItineraries(userItineraries)
         IN  [userId |-> userId, status |-> 200, count |-> Len(sorted),
              itineraries |-> [i \in 1..Len(sorted) |-> sorted[i].rec]]

\* ------------------------------------------------------------------------
\* part_000: POST /api/register, POST /api/login, GET /api/data/users.json
\* ------------------------------------------------------------------------
\* the number of users the runs register
MaxUsers == 2

\* strings whose length the handlers test are sequences of characters
Alice == <<"a", "l", "i", "c", "e">>

Bobby == <<"b", "o", "b", "b", "y">>

Carol == <<"c", "a", "r", "o", "l">>

Secret == <<"s", "e", "c", "r", "e", "t">>

Hunter == <<"h", "u", "n", "t", "e", "r", "2">>

\* `user_${Date.now()}`
generateUserId(now) == <<"user_", ToString(now)>>

\* [^\s@]+
emailPart(s) == Len(s) > 0 /\ \A k \in 1..Len(s) : s[k] \notin {" ", "@"}

\* /^[^\s@]+@[^\s@]+\.[^\s@]+$/
validateEmail(email) ==
    \E i \in 1..Len(email), j \in 1..Len(email) :
        /\ i < j
        /\ email[i] = "@"
        /\ email[j] = "."
        /\ emailPart(SubSeq(email, 1, i - 1))
        /\ emailPart(SubSeq(email, i + 1, j - 1))
        /\ emailPart(SubSeq(email, j + 1, Len(email)))

SchemeStart == {"a", "h", "w"}

SchemeChars == SchemeStart \cup {"t", "p", "s", "+", "-", "."}

\* new URL(url) without a base: it throws when url has no scheme.  Of the
\* URL parser only the scheme is computed here; the urls of the runs have a
\* scheme that is not special (whatever follows it parses) or no scheme.
validateURL(url) ==
    \E i \in 2..Len(url) :
        /\ url[i] = ":"
        /\ url[1] \in SchemeStart
        /\ \A k \in 1..(i - 1) : url[k] \in SchemeChars

\* the validation of the registration body: the list of errors
registerErrors(body) ==
    (IF Len(body.username) < 4
     THEN <<"Username must be at least 4 characters">> ELSE <<>>) \o
    (IF Len(body.password) < 6
     THEN <<"Password must be at least 6 characters">> ELSE <<>>) \o
    (IF Len(body.fullName) < 3
     THEN <<"Full name is required">> ELSE <<>>) \o
    (IF body.email # <<>> /\ ~validateEmail(body.email)
     THEN <<"Invalid email format">> ELSE <<>>) \o
    (IF body.website # <<>> /\ ~validateURL(body.website)
     THEN <<"Invalid website URL">> ELSE <<>>)

\* The collection 'users' of eveloDB is the array of evelodatabase/users.json
\* that engine.js and GET /api/data/users.json read.  The library is a
\* dependency; db.findOne, db.create and db.update are taken as the handlers
\* use their results, and a call that throws is the dbOk = FALSE of the actions.
\* db.findOne('users', conditions): the indexes of the records of the
\* collection whose fields equal those of the conditions
matching(us, conditions) ==
    {i \in 1..Len(us) : \A f \in DOMAIN conditions : us[i][f] = conditions[f]}

\* the first of them
first(is) == CHOOSE i \in is : \A k \in is : i <= k

\* the user object POST /api/register builds
newUser(now, body) ==
    [id |-> generateUserId(now), username |-> body.username, password |-> body.password,
     companyInfo |-> body.companyName, lastLogin |-> 0, noOfItineraries |-> 0]

\* const { password: _, ...rest } = user
withoutPassword_keepsAll(user) == user

withoutPassword(user) == [f \in DOMAIN user \ {"password"} |-> user[f]]

NoUserResponse == [route |-> "", status |-> 0, error |-> "", details |-> <<>>, body |-> <<>>]

userError(route, status, error, details) ==
    [route |-> route, status |-> status, error |-> error, details |-> details, body |-> <<>>]

userAnswer(route, status, body) ==
    [route |-> route, status |-> status, error |-> "", details |-> <<>>, body |-> body]

\* the answer of POST /api/register before the database is touched, or
\* NoUserResponse when the body goes on to the database
registerRejection(uploadErr, body) ==
    IF uploadErr = "multer" THEN userError("register", 400, "File upload error", <<>>)
    ELSE IF uploadErr # "" THEN userError("register", 400, "Invalid file type", <<>>)
    ELSE IF Len(registerErrors(body)) > 0
    THEN userError("register", 400, "Validation failed", registerErrors(body))
    ELSE NoUserResponse

\* the answer of GET /api/data/users.json: the parsed file, as it is
usersJsonResponse(as, us) ==
    IF "users.json" \notin as
    THEN userError("users.json", 500, "Failed to load user data", <<>>)
    ELSE userAnswer("users.json", 200, us)

\* ------------------------------------------------------------------------
\* State
\* ------------------------------------------------------------------------
VARIABLES
    store,        \* itineraries.json: sequence of entries
    users,        \* users.json: sequence of user records
    assets,       \* files that exist before any run (json files, template, images)
    pc,           \* where the running call stands
    caller,       \* "pipeline", "screenshot" or "convert": the function called
    reqId,        \* itineraryId of the call
    itinerary,    \* <<>> or <<the itinerary getItineraryById returned>>
    companyInfo,  \* "" or the company info getCompanyInfo returned
    shotArg,      \* route argument of generateRouteScreenshot
    sentRoute,    \* <<>> or <<the route handed to captureMapScreenshot>>
    sswebP,       \* promise of ssweb: "none", "pending", "resolved", "rejected"
    unhandled,    \* "" or the error that no handler received
    convOut,      \* outputFilePath of convertDocxToPdf
    convP,        \* promise of convertDocxToPdf
    attempts,     \* attempts of the poll loop
    slept,        \* milliseconds spent in sleep()
    polled,       \* the job statuses the polls returned, in order
    started,      \* pipeline steps started, in order
    failed,       \* the pipeline step that threw, "" when none
    result,       \* outcome of the call: "pending", "success", "rejected"
    error,        \* the error the call rejected with
    files,        \* paths of the files written
    partial,      \* paths of files created whose write has not finished
    dirs,         \* directories created
    reqs,         \* number of remote requests sent, by kind
    proc,         \* "up" or "crashed": the node process
    gdArgs,       \* the options of a direct call of generateDocument
    dlReq,        \* POST /api/download: "none", "pending" or "answered"
    dlRes,        \* the response of POST /api/download
    docRes,       \* the response of the last GET /document/:filename
    gen,          \* the POST /api/generate requests, by request number
    clock,        \* Date.now()
    overlapped,   \* history: a generate request arrived while another was running
    ioLog,        \* history: reads and writes of itineraries.json by generate
    listRes,      \* the response of the last GET /api/itineraries
    userRes,      \* the last response of /api/register, /api/login or /api/data/users.json
    formatted     \* <<>> or <<the object formatItineraryData returned>>

vars == <<store, users, assets, pc, caller, reqId, itinerary, companyInfo, shotArg,
          sentRoute, sswebP, unhandled, convOut, convP, attempts, slept, polled,
          started, failed, result, error, files, partial, dirs, reqs, proc, gdArgs,
          dlReq, dlRes, docRes, gen, clock, overlapped, ioLog, listRes,
          userRes, formatted>>

envVars == <<store, users, assets>>

\* the state of the entry points other than the pipeline
httpVars == <<dlReq, dlRes, docRes, userRes>>

genVars == <<gen, clock, overlapped, ioLog, listRes>>

srvVars == <<gdArgs, httpVars, genVars, formatted>>

shotVars == <<shotArg, sentRoute, sswebP, unhandled>>

convVars == <<convOut, convP, attempts, slept, polled>>

fsVars == <<files, partial, dirs>>

\* the state of the running call of the engine
runVars == <<pc, caller, reqId, itinerary, companyInfo, shotVars, convVars, started,
             failed, result, error, fsVars, reqs, proc, formatted>>

NoReqs == [capture |-> 0, image |-> 0, upload |-> 0, convert |-> 0, status |-> 0, download |-> 0]

Sent(kind) == reqs' = [reqs EXCEPT ![kind] = @ + 1]

\* ------------------------------------------------------------------------
\* Inputs
\* ------------------------------------------------------------------------
SeqsUpTo(S, n) == UNION {[1..k -> S] : k \in 0..n}

Alphabet == {"A", "B", " ", "-"}

ColomboRoute ==
    <<"C", "o", "l", "o", "m", "b", "o", " ", "-", " ",
      "A", "k", "k", "a", "r", "a", "i", "p", "a", "t", "t", "u", " ", "-", " ",
      "M", "a", "t", "a", "r", "a">>

TwoPlaceRoute == <<"A", " ", "-", " ", "B">>

AirportRoute == <<"A", " ", "B", " ", "-", " ", "B", " ", "A", "-", "A">>

AllRoutes == SeqsUpTo(Alphabet, MaxRouteLen) \cup {ColomboRoute, AirportRoute}

PipelineRoutes ==
    {Undefined, NonString, Str(<<>>), Str(<<"A">>), Str(TwoPlaceRoute),
     Str(ColomboRoute), Str(AirportRoute)}

Days == {[place |-> "Kandy", overnightStay |-> TRUE, hotel |-> "Hilton", customHotel |-> ""]}

PlansValues ==
    {PlansUndefined, PlansNonArray} \cup {PlansArray(a) : a \in SeqsUpTo(Days, MaxPlans)}

U1 == <<"u1">>

U2 == <<"u2">>

\* the records under which itinerary "i1" can be stored: matched by its key,
\* by its id field or by the id field of its payload
Records(routes, plans, dayCounts) ==
    {Entry(U1, k.key, Record(k.id, k.wrapped, Payload(k.dataId, r, p, nd))) :
        k \in {[key |-> "i1", id |-> "i1", wrapped |-> TRUE, dataId |-> ""],
               [key |-> "i1", id |-> "i1", wrapped |-> FALSE, dataId |-> "i1"],
               [key |-> "k1", id |-> "i1", wrapped |-> TRUE, dataId |-> ""],
               [key |-> "k1", id |-> "i1", wrapped |-> FALSE, dataId |-> "i1"],
               [key |-> "k1", id |-> "", wrapped |-> TRUE, dataId |-> "i1"]},
        r \in routes, p \in plans, nd \in dayCounts}

OtherEntry ==
    Entry(U2, "i2", Record("i2", TRUE,
          Payload("", Str(<<"B", "-", "A">>), PlansArray(<<>>), 1)))

UserLists ==
    { <<>>,
      <<[id |-> U1, username |-> Alice, password |-> Secret, companyInfo |-> "", lastLogin |-> 0, noOfItineraries |-> 0]>>,
      <<[id |-> <<"user_">> \o U1, username |-> Carol, password |-> Secret, companyInfo |-> "company1", lastLogin |-> 0, noOfItineraries |-> 0],
        [id |-> U1, username |-> Alice, password |-> Secret, companyInfo |-> "company1b", lastLogin |-> 0, noOfItineraries |-> 0]>>,
      <<[id |-> U2, username |-> Bobby, password |-> Secret, companyInfo |-> "company2", lastLogin |-> 0, noOfItineraries |-> 0], [id |-> U1, username |-> Alice, password |-> Secret, companyInfo |-> "company1", lastLogin |-> 0, noOfItineraries |-> 0]>> }

AllAssets == {"itineraries.json", "users.json", "template.docx", "logo", "cover"}

AssetSets == {AllAssets} \cup {AllAssets \ {a} : a \in AllAssets}

RequestIds == {"i1", "i2", "i9"}

OutPaths ==
    { <<>>, pdfPathOf("i1"), <<"a", ".", "d", "o", "c", "x">>, <<"p", "d", "f">>, <<".", "p", "d", "f">>,
      <<"a", ".", "p", "d", "f", "x">> }

InitRun ==
    /\ pc = "idle" /\ caller = "" /\ reqId = ""
    /\ itinerary = <<>> /\ companyInfo = ""
    /\ shotArg = Undefined /\ sentRoute = <<>> /\ sswebP = "none" /\ unhandled = ""
    /\ convOut = <<>> /\ convP = "none" /\ attempts = 0 /\ slept = 0 /\ polled = <<>>
    /\ started = <<>> /\ failed = "" /\ result = "pending" /\ error = ""
    /\ partial = {} /\ dirs = {} /\ reqs = NoReqs /\ proc = "up"
    /\ gdArgs = NoOptions
    /\ dlReq = "none" /\ dlRes = NoResponse /\ docRes = NoDocument
    /\ gen = [r \in Requests |-> NoRequest] /\ clock = 1
    /\ overlapped = FALSE /\ ioLog = <<>> /\ listRes = NoList
    /\ formatted = <<>>
    /\ userRes = NoUserResponse

Init ==
    /\ \E e \in Records(PipelineRoutes, PlansValues, {0, 2}) : store = <<OtherEntry, e>>
    /\ users \in UserLists
    /\ assets \in AssetSets
    /\ files = {}
    /\ InitRun

\* ------------------------------------------------------------------------
\* Helpers of the actions
\* ------------------------------------------------------------------------
\* a throw inside the running call: every catch block on the way out logs
\* and rethrows, so the call rejects with the error of the step that threw
Throw(step, e) ==
    /\ failed' = step
    /\ error' = e
    /\ result' = "rejected"
    /\ pc' = "done"

NoThrow == UNCHANGED <<failed, result, error>>

\* the log of pipeline steps is kept for processItinerary only
Start(step) == started' = IF caller = "pipeline" THEN Append(started, step) ELSE started

\* ssweb: what the then-callback of the capture request does with the response
submitStep(o) ==
    IF o = "network_error" THEN "NetworkError"
    ELSE IF o = "no_cookie" THEN "CookieTypeError"
    ELSE IF o = "success" THEN ""
    ELSE "LinkError"

\* formatItineraryData: itinerary.numberOfDays.toString() throws on undefined
formatThrows(d) == d.numberOfDays = 0

\* generateItineraryDocument and generateDocument: the error, "" when the
\* document is rendered; o is whether docxtemplater accepts the template
renderError(as, fs, id, o) ==
    IF "template.docx" \notin as THEN "TemplateNotFound"
    ELSE generateDocumentError(documentOptions(id), as, fs, o)

\* ------------------------------------------------------------------------
\* processItinerary
\* ------------------------------------------------------------------------
CallProcessItinerary ==
    /\ pc = "idle"
    /\ \E id \in RequestIds : reqId' = id
    /\ caller' = "pipeline"
    /\ pc' = "resolve"
    /\ UNCHANGED <<envVars, srvVars, itinerary, companyInfo, shotVars, convVars, started,
                   failed, result, error, fsVars, reqs, proc>>

\* step 1: getItineraryById and the null check
ResolveItinerary ==
    /\ pc = "resolve"
    /\ Start("resolve")
    /\ IF "itineraries.json" \notin assets
       THEN Throw("resolve", "ItinerariesFileMissing") /\ UNCHANGED itinerary
       ELSE LET r == getItineraryById(store, reqId)
            IN  IF r = <<>>
                THEN Throw("resolve", "ItineraryNotFound") /\ UNCHANGED itinerary
                ELSE itinerary' = r /\ pc' = "validate" /\ NoThrow
    /\ UNCHANGED <<envVars, srvVars, caller, reqId, companyInfo, shotVars, convVars, fsVars,
                   reqs, proc>>

\* the validation of route and dailyPlans
ValidatePayload ==
    /\ pc = "validate"
    /\ Start("validate")
    /\ LET e == validatePayload(itineraryData(itinerary[1]))
       IN  IF e # "" THEN Throw("validate", e) ELSE pc' = "company" /\ NoThrow
    /\ UNCHANGED <<envVars, srvVars, caller, reqId, itinerary, companyInfo, shotVars, convVars,
                   fsVars, reqs, proc>>

\* step 2: getCompanyInfo; on success the route is prepared for step 3.
\* itinerary.userId is the user key getItineraryById put there, a non-empty
\* string (POST /api/generate refuses an empty userId), so the fallbacks of
\* the userId expression and its throw are never taken.
ResolveCompany ==
    /\ pc = "company"
    /\ Start("company")
    /\ IF "users.json" \notin assets
       THEN Throw("company", "UsersFileMissing") /\ UNCHANGED <<companyInfo, shotArg>>
       ELSE LET c == getCompanyInfo(users, itinerary[1].userId)
            IN  IF c = ""
                THEN Throw("company", "CompanyInfoNotFound")
                     /\ UNCHANGED <<companyInfo, shotArg>>
                ELSE /\ companyInfo' = c
                     /\ shotArg' = Str(formattedRoute(itineraryData(itinerary[1]).route.s))
                     /\ pc' = "snapshot"
                     /\ NoThrow
    /\ UNCHANGED <<envVars, srvVars, caller, reqId, itinerary, sentRoute, sswebP, unhandled,
                   convVars, fsVars, reqs, proc>>

\* ------------------------------------------------------------------------
\* generateRouteScreenshot, captureMapScreenshot, ssweb
\* ------------------------------------------------------------------------
CallGenerateRouteScreenshot ==
    /\ pc = "idle"
    /\ \E i \in 1..Len(store) : shotArg' = store[i].rec.data.route
    /\ caller' = "screenshot"
    /\ reqId' = "i1"
    /\ pc' = "snapshot"
    /\ UNCHANGED <<envVars, srvVars, itinerary, companyInfo, sentRoute, sswebP, unhandled,
                   convVars, started, failed, result, error, fsVars, reqs, proc>>

\* step 3 up to the capture request that ssweb sends
GenerateRouteScreenshot ==
    /\ pc = "snapshot"
    /\ Start("snapshot")
    /\ IF ~Truthy(shotArg) \/ ~IsString(shotArg)
       THEN Throw("snapshot", "InvalidRouteFormat")
            /\ UNCHANGED <<sentRoute, sswebP, dirs, reqs>>
       ELSE LET ps == places(shotArg.s)
            IN  IF tooFewPlaces(ps)
                THEN Throw("snapshot", "TooFewPlaces")
                     /\ UNCHANGED <<sentRoute, sswebP, dirs, reqs>>
                ELSE /\ dirs' = dirs \cup {"db/img/itinerary"}
                     /\ sentRoute' = <<mapRoute(ps)>>
                     /\ sswebP' = "pending"
                     /\ Sent("capture")
                     /\ pc' = "ss_submit"
                     /\ NoThrow
    /\ UNCHANGED <<envVars, srvVars, caller, reqId, itinerary, companyInfo, shotArg, unhandled,
                   convVars, files, partial, proc>>

\* the capture request returns: the image is requested or ssweb rejects
SubmitResponds ==
    /\ pc = "ss_submit"
    /\ \E o \in {"network_error", "link_error", "no_cookie", "success"} :
        LET e == submitStep(o)
        IN  IF e = ""
            THEN Sent("image") /\ pc' = "ss_fetch" /\ NoThrow /\ UNCHANGED sswebP
            ELSE sswebP' = "rejected" /\ Throw("snapshot", e) /\ UNCHANGED reqs
    /\ UNCHANGED <<envVars, srvVars, caller, reqId, itinerary, companyInfo, shotArg, sentRoute,
                   unhandled, convVars, started, fsVars, proc>>

\* the image request returns.  Its promise has a then but no catch and is not
\* returned to the outer chain: on a network error nothing settles ssweb, and
\* the unhandled rejection either is only logged or ends the process,
\* depending on the node version.
FetchResponds ==
    /\ pc = "ss_fetch"
    /\ \E o \in {"ok", "network_error"} :
        IF o = "ok"
        THEN /\ sswebP' = "resolved"
             /\ files' = files \cup {screenshotPathOf(reqId)}
             /\ IF caller = "pipeline"
                THEN pc' = "format" /\ UNCHANGED result
                ELSE pc' = "done" /\ result' = "success"
             /\ UNCHANGED <<unhandled, proc>>
        ELSE /\ unhandled' = "ImageFetchError"
             /\ pc' = "hung"
             /\ proc' \in {"up", "crashed"}
             /\ UNCHANGED <<sswebP, files, result>>
    /\ UNCHANGED <<envVars, srvVars, caller, reqId, itinerary, companyInfo, shotArg, sentRoute,
                   convVars, started, failed, error, partial, dirs, reqs>>

\* ------------------------------------------------------------------------
\* formatItineraryData, generateItineraryDocument
\* ------------------------------------------------------------------------
\* step 4
FormatData ==
    /\ pc = "format"
    /\ Start("format")
    /\ IF formatThrows(itineraryData(itinerary[1]))
       THEN Throw("format", "FormatTypeError") /\ UNCHANGED formatted
       ELSE /\ formatted' = <<formatItineraryData(itineraryData(itinerary[1]), companyInfo,
                                                   screenshotPathOf(reqId))>>
            /\ pc' = "render"
            /\ NoThrow
    /\ UNCHANGED <<envVars, gdArgs, httpVars, genVars, caller, reqId, itinerary, companyInfo,
                   shotVars, convVars, fsVars, reqs, proc>>

\* step 5: the temp directory, then the Word document
RenderDocument ==
    /\ pc = "render"
    /\ Start("render")
    /\ dirs' = dirs \cup {"db/temp/tempStore"}
    /\ \E o \in {"ok", "template_error"} :
        LET e == renderError(assets, files, reqId, o)
        IN  IF e # ""
            THEN Throw("render", e) /\ UNCHANGED <<files, convOut>>
            ELSE /\ files' = files \cup {docxPathOf(reqId)}
                 /\ convOut' = pdfPathOf(reqId)
                 /\ pc' = "convert"
                 /\ NoThrow
    /\ UNCHANGED <<envVars, srvVars, caller, reqId, itinerary, companyInfo, shotVars, convP,
                   attempts, slept, polled, partial, reqs, proc>>

\* ------------------------------------------------------------------------
\* generateDocument, called on its own
\* ------------------------------------------------------------------------
GdTemplates == {<<>>, <<"template.docx">>}

GdData ==
    {[present |-> FALSE, refs |-> <<>>], [present |-> TRUE, refs |-> <<>>],
     [present |-> TRUE, refs |-> <<"companyLogo">>],
     [present |-> TRUE, refs |-> <<"companyLogo", "routeMap">>]}

GdImages ==
    {NoOptions.images,
     [present |-> TRUE,
      paths |-> [t \in ImageTags |-> IF t = "companyLogo" THEN <<"logo">> ELSE NoPath]],
     [present |-> TRUE,
      paths |-> [t \in ImageTags |-> IF t = "companyLogo" THEN <<"logo">>
                                     ELSE screenshotPathOf("i1")]]}

GdOutPaths == {<<>>, <<"out/", "a", ".", "d", "o", "c", "x">>}

CallGenerateDocument ==
    /\ pc = "idle"
    /\ \E t \in GdTemplates, d \in GdData, i \in GdImages, out \in GdOutPaths :
        gdArgs' = [templatePath |-> t, data |-> d, images |-> i, outputPath |-> out]
    /\ caller' = "render"
    /\ pc' = "gen_doc"
    /\ UNCHANGED <<envVars, httpVars, genVars, formatted, reqId, itinerary, companyInfo, shotVars, convVars,
                   started, failed, result, error, fsVars, reqs, proc>>

\* the whole call: nothing in generateDocument awaits
GenerateDocument ==
    /\ pc = "gen_doc"
    /\ \E o \in {"ok", "template_error"} :
        LET e == generateDocumentError(gdArgs, assets, files, o)
            outputDir == dirname(gdArgs.outputPath)
        IN  IF e # ""
            THEN Throw("render", e) /\ UNCHANGED <<files, dirs>>
            ELSE /\ dirs' = IF outputDir = "." THEN dirs ELSE dirs \cup {outputDir}
                 /\ files' = files \cup {gdArgs.outputPath}
                 /\ result' = "success"
                 /\ pc' = "done"
                 /\ UNCHANGED <<failed, error>>
    /\ UNCHANGED <<envVars, srvVars, caller, reqId, itinerary, companyInfo, shotVars,
                   convVars, started, partial, reqs, proc>>

\* ------------------------------------------------------------------------
\* convertDocxToPdf
\* ------------------------------------------------------------------------
\* the catch block wraps every error into one rejection; awaited by
\* processItinerary, the rejection is the rejection of the pipeline
ThrowConv(e) == convP' = "rejected" /\ Throw("convert", e)

\* what follows the upload response: "" when the conversion is started
uploadStep(o) ==
    IF o = "network_error" THEN "NetworkError"
    ELSE IF o = "ok" THEN ""
    ELSE "UploadFailed"

\* what follows the convertToPdf response: "" when a job id came back
convertStep(o) ==
    IF o = "network_error" THEN "NetworkError"
    ELSE IF o = "job" THEN ""
    ELSE "ConversionNotStarted"

CallConvertDocxToPdf ==
    /\ pc = "idle"
    /\ \E out \in OutPaths : convOut' = out
    /\ caller' = "convert"
    /\ reqId' = "i1"
    /\ pc' = "convert"
    /\ UNCHANGED <<envVars, srvVars, itinerary, companyInfo, shotVars, convP, attempts, slept,
                   polled, started, failed, result, error, fsVars, reqs, proc>>

\* step 6: the validation of the two paths, then the upload request
ConvertStart ==
    /\ pc = "convert"
    /\ Start("convert")
    /\ LET e == convValidate(docxPathOf(reqId) \in files, convOut)
       IN  IF e # ""
           THEN ThrowConv(e) /\ UNCHANGED reqs
           ELSE convP' = "pending" /\ Sent("upload") /\ pc' = "conv_upload" /\ NoThrow
    /\ UNCHANGED <<envVars, srvVars, caller, reqId, itinerary, companyInfo, shotVars, convOut,
                   attempts, slept, polled, fsVars, proc>>

UploadResponds ==
    /\ pc = "conv_upload"
    /\ \E o \in {"network_error", "empty", "ok"} :
        LET e == uploadStep(o)
        IN  IF e # ""
            THEN ThrowConv(e) /\ UNCHANGED reqs
            ELSE Sent("convert") /\ pc' = "conv_start" /\ NoThrow /\ UNCHANGED convP
    /\ UNCHANGED <<envVars, srvVars, caller, reqId, itinerary, companyInfo, shotVars, convOut,
                   attempts, slept, polled, started, fsVars, proc>>

ConvertResponds ==
    /\ pc = "conv_start"
    /\ \E o \in {"network_error", "no_job", "job"} :
        LET e == convertStep(o)
        IN  IF e # ""
            THEN ThrowConv(e) /\ UNCHANGED attempts
            ELSE attempts' = 0 /\ pc' = "conv_loop" /\ NoThrow /\ UNCHANGED convP
    /\ UNCHANGED <<envVars, srvVars, caller, reqId, itinerary, companyInfo, shotVars, convOut,
                   slept, polled, started, fsVars, reqs, proc>>

\* the head of the while loop: one more attempt, one sleep, one status
\* request; when the condition fails the code goes on to the download
PollLoop ==
    /\ pc = "conv_loop"
    /\ IF attempts < maxAttempts
       THEN /\ attempts' = attempts + 1
            /\ slept' = slept + sleepMs
            /\ Sent("status")
            /\ pc' = "conv_status"
       ELSE /\ Sent("download")
            /\ pc' = "conv_download"
            /\ UNCHANGED <<attempts, slept>>
    /\ UNCHANGED <<envVars, srvVars, caller, reqId, itinerary, companyInfo, shotVars, convOut,
                   convP, polled, started, failed, result, error, fsVars, proc>>

StatusResponds ==
    /\ pc = "conv_status"
    /\ \E o \in {"done", "failed", "converting", "network_error"} :
        IF o = "network_error"
        THEN ThrowConv("NetworkError") /\ UNCHANGED <<polled, reqs>>
        ELSE /\ polled' = Append(polled, o)
             /\ LET step == pollStep(o, attempts)
                IN  IF step = "break"
                    THEN Sent("download") /\ pc' = "conv_download" /\ NoThrow
                         /\ UNCHANGED convP
                    ELSE IF step = "continue"
                    THEN pc' = "conv_loop" /\ NoThrow /\ UNCHANGED <<convP, reqs>>
                    ELSE ThrowConv(step) /\ UNCHANGED reqs
    /\ UNCHANGED <<envVars, srvVars, caller, reqId, itinerary, companyInfo, shotVars, convOut,
                   attempts, slept, started, fsVars, proc>>

\* the download request returns: on a response the write stream is created
\* and the response stream piped into it
DownloadResponds ==
    /\ pc = "conv_download"
    /\ \E o \in {"network_error", "stream"} :
        IF o = "network_error"
        THEN ThrowConv("NetworkError") /\ UNCHANGED <<files, partial>>
        ELSE /\ files' = files \cup {convOut}
             /\ partial' = partial \cup {convOut}
             /\ pc' = "conv_stream"
             /\ NoThrow
             /\ UNCHANGED convP
    /\ UNCHANGED <<envVars, srvVars, caller, reqId, itinerary, companyInfo, shotVars, convOut,
                   attempts, slept, polled, started, dirs, reqs, proc>>

\* the piped streams end.  Only the writer has listeners: 'finish' resolves
\* and 'error' rejects.  An error of the response stream reaches neither, so
\* the returned promise stays pending, and the unhandled 'error' event may
\* end the process.
StreamEnds ==
    /\ pc = "conv_stream"
    /\ \E o \in {"finish", "writer_error", "source_error"} :
        IF o = "finish"
        THEN /\ partial' = partial \ {convOut}
             /\ convP' = "resolved"
             /\ result' = "success"
             /\ pc' = "done"
             /\ UNCHANGED <<failed, error, proc, unhandled>>
        ELSE IF o = "writer_error"
        THEN ThrowConv("WriteError") /\ UNCHANGED <<partial, proc, unhandled>>
        ELSE /\ unhandled' = "DownloadStreamError"
             /\ pc' = "hung"
             /\ proc' \in {"up", "crashed"}
             /\ UNCHANGED <<partial, convP, failed, result, error>>
    /\ UNCHANGED <<envVars, srvVars, caller, reqId, itinerary, companyInfo, shotArg, sentRoute,
                   sswebP, convOut, attempts, slept, polled, started, files, dirs, reqs>>

\* ------------------------------------------------------------------------
\* POST /api/download and GET /document/:filename
\* ------------------------------------------------------------------------
\* the request arrives: 400 without itineraryId, else processItinerary runs
PostDownload ==
    /\ pc = "idle" /\ dlReq = "none"
    /\ \E id \in RequestIds \cup {""} :
        IF id = ""
        THEN /\ dlRes' = [status |-> 400, itineraryPath |-> <<>>]
             /\ dlReq' = "answered"
             /\ UNCHANGED <<reqId, caller, pc>>
        ELSE /\ reqId' = id
             /\ caller' = "pipeline"
             /\ pc' = "resolve"
             /\ dlReq' = "pending"
             /\ UNCHANGED dlRes
    /\ UNCHANGED <<envVars, gdArgs, genVars, formatted, docRes, userRes, itinerary, companyInfo, shotVars, convVars,
                   started, failed, result, error, fsVars, reqs, proc>>

\* processItinerary settled: the answer is sent
DownloadAnswers ==
    /\ dlReq = "pending" /\ pc = "done"
    /\ dlRes' = downloadResponse(result, pdfPathOf(reqId))
    /\ dlReq' = "answered"
    /\ UNCHANGED <<envVars, gdArgs, genVars, formatted, docRes, userRes, pc, caller, reqId, itinerary, companyInfo,
                   shotVars, convVars, started, failed, result, error, fsVars, reqs, proc>>

DocumentNames ==
    {Tail(pdfPathOf(id)) : id \in RequestIds} \cup
    {Tail(docxPathOf("i1")), Tail(screenshotPathOf("i1"))}

\* a document is requested, at any moment of the run
GetDocument ==
    /\ proc = "up"
    /\ \E f \in DocumentNames : docRes' = documentResponse(f, files, partial)
    /\ UNCHANGED <<envVars, gdArgs, genVars, formatted, dlReq, dlRes, userRes, pc, caller, reqId, itinerary,
                   companyInfo, shotVars, convVars, started, failed, result, error,
                   fsVars, reqs, proc>>

\* ------------------------------------------------------------------------
\* POST /api/generate and GET /api/itineraries
\* ------------------------------------------------------------------------
\* the userId of the query: a user's id, or the text of an array index
GenUserIds == {U1, <<"0">>}

\* the request body: free-form, here with an id field of its own that has
\* the form of a generated identifier
Bodies == {Payload(newItineraryId(2, 2), Str(TwoPlaceRoute), PlansArray(<<>>), 1)}

Running(q) == q.pc \notin {"idle", "done"}

\* The list request and the lookup of an itinerary change nothing.  A run
\* is therefore observed by one list request or one lookup, made at any
\* moment, and followed no further: every step below is a step of a run not
\* yet observed.
Unobserved == listRes = NoList /\ pc = "idle"

\* the response is sent and the handler returns; its local objects are gone
Answer(r, code) ==
    gen' = [gen EXCEPT ![r].pc = "done", ![r].status = code,
                       ![r].itineraries = <<>>, ![r].users = <<>>]

\* the request arrives: 400 without userId, else the itinerary object is
\* built and itineraries.json is requested.  Requests are numbered in the
\* order of their arrival.
GenReceive(r) ==
    /\ Unobserved
    /\ gen[r].pc = "idle"
    /\ IF r = 1 THEN TRUE ELSE gen[r - 1].pc # "idle"
    /\ \E userId \in GenUserIds \cup {<<>>}, body \in Bodies, now \in {clock, clock + 1} :
        IF userId = <<>>
        THEN Answer(r, 400) /\ UNCHANGED <<clock, overlapped>>
        ELSE /\ gen' = [gen EXCEPT ![r].pc = "read", ![r].userId = userId,
                                   ![r].data = body, ![r].timestamp = now,
                                   ![r].itineraryId = newItineraryId(now, r)]
             /\ clock' = now
             /\ overlapped' = (overlapped \/ \E q \in Requests : Running(gen[q]))
    /\ UNCHANGED <<envVars, runVars, gdArgs, httpVars, ioLog, listRes>>

\* itineraries.json was read: the itinerary is put into the object read and
\* the write of the whole object is requested
GenItinerariesRead(r) ==
    /\ Unobserved
    /\ gen[r].pc = "read"
    /\ \E o \in {"ok", "read_error"} :
        IF o = "ok"
        THEN /\ gen' = [gen EXCEPT ![r].pc = "write",
                                   ![r].itineraries =
                                       putItinerary(readItineraries(assets, store),
                                                    itineraryOf(gen[r]))]
             /\ ioLog' = Append(ioLog, [op |-> "read", r |-> r])
        ELSE Answer(r, 500) /\ UNCHANGED ioLog
    /\ UNCHANGED <<envVars, runVars, gdArgs, httpVars, clock, overlapped, listRes>>

\* the write returned: the file holds what this request had prepared
GenItinerariesWritten(r) ==
    /\ Unobserved
    /\ gen[r].pc = "write"
    /\ \E o \in {"ok", "write_error"} :
        IF o = "ok"
        THEN /\ store' = gen[r].itineraries
             /\ assets' = assets \cup {"itineraries.json"}
             /\ gen' = [gen EXCEPT ![r].pc = "users"]
             /\ ioLog' = Append(ioLog, [op |-> "write", r |-> r])
        ELSE Answer(r, 500) /\ UNCHANGED <<store, assets, ioLog>>
    /\ UNCHANGED <<users, runVars, gdArgs, httpVars, clock, overlapped, listRes>>

\* users.json was read, or could not be: the count is raised when
\* users[userId] is there, else the request is answered
GenUsersRead(r) ==
    /\ Unobserved
    /\ gen[r].pc = "users"
    /\ IF "users.json" \notin assets \/ userIndex(users, gen[r].userId) = 0
       THEN Answer(r, 201)
       ELSE gen' = [gen EXCEPT ![r].pc = "count",
                               ![r].users = countUpdate(users, gen[r].userId)]
    /\ UNCHANGED <<envVars, runVars, gdArgs, httpVars, clock, overlapped, ioLog, listRes>>

\* the write of users.json returned; its failure is logged only
GenUsersWritten(r) ==
    /\ Unobserved
    /\ gen[r].pc = "count"
    /\ \E o \in {"ok", "write_error"} :
        users' = IF o = "ok" THEN gen[r].users ELSE users
    /\ Answer(r, 201)
    /\ UNCHANGED <<store, assets, runVars, gdArgs, httpVars, clock, overlapped, ioLog,
                   listRes>>

\* GET /api/itineraries, at any moment
ListItineraries ==
    /\ Unobserved
    /\ \E userId \in {U1, U2, <<>>} : listRes' = listResponse(userId, assets, store)
    /\ UNCHANGED <<envVars, runVars, gdArgs, httpVars, gen, clock, overlapped, ioLog>>

\* ------------------------------------------------------------------------
\* getItineraryById, called with an identifier POST /api/generate returned
\* ------------------------------------------------------------------------
CallGetItineraryById ==
    /\ Unobserved
    /\ \E r \in Requests :
         /\ gen[r].status = 201
         /\ reqId' = gen[r].itineraryId
         /\ IF "itineraries.json" \notin assets
            THEN Throw("resolve", "ItinerariesFileMissing") /\ UNCHANGED itinerary
            ELSE /\ itinerary' = getItineraryById(store, gen[r].itineraryId)
                 /\ result' = "success"
                 /\ pc' = "done"
                 /\ UNCHANGED <<failed, error>>
    /\ caller' = "lookup"
    /\ UNCHANGED <<envVars, gdArgs, httpVars, genVars, formatted, companyInfo, shotVars,
                   convVars, started, fsVars, reqs, proc>>

\* ------------------------------------------------------------------------
\* formatItineraryData, called on its own
\* ------------------------------------------------------------------------
\* daily plans: without overnight stay, and with one under every
\* combination of hotel and customHotel
DayVariants ==
    {[place |-> p, overnightStay |-> FALSE, hotel |-> h, customHotel |-> ""] :
        p \in {"Kandy", "Galle"}, h \in {"", "Hilton"}}
    \cup
    {[place |-> p, overnightStay |-> TRUE, hotel |-> h, customHotel |-> c] :
        p \in {"Kandy", "Galle"}, h \in {"", "custom", "Hilton"}, c \in {"", "Villa"}}

StartDates ==
    {[y |-> 2024, m |-> 1, d |-> 31], [y |-> 2024, m |-> 2, d |-> 28],
     [y |-> 2023, m |-> 2, d |-> 28], [y |-> 2023, m |-> 12, d |-> 31],
     [y |-> 2024, m |-> 12, d |-> 30], [y |-> 2024, m |-> 6, d |-> 15]}

DayCounts == (1..MaxDayCount) \cup {33, 367}

CallFormatItineraryData ==
    /\ pc = "idle"
    /\ \E plans \in SeqsUpTo(DayVariants, MaxFormatPlans), nd \in DayCounts,
          start \in StartDates :
        LET data == [Payload("", Str(TwoPlaceRoute), PlansArray(plans), nd)
                        EXCEPT !.tourStartDate = start]
        IN  /\ itinerary' = <<[id |-> "i1", wrapped |-> TRUE, data |-> data, userId |-> U1]>>
            /\ formatted' = <<formatItineraryData(data, "company1", screenshotPathOf("i1"))>>
    /\ companyInfo' = "company1"
    /\ caller' = "format"
    /\ result' = "success"
    /\ pc' = "done"
    /\ UNCHANGED <<envVars, gdArgs, httpVars, genVars, reqId, shotVars, convVars, started,
                   failed, error, fsVars, reqs, proc>>

\* ------------------------------------------------------------------------
\* Specifications
\* ------------------------------------------------------------------------
SnapshotSteps ==
    \/ GenerateRouteScreenshot
    \/ SubmitResponds
    \/ FetchResponds

ConvertSteps ==
    \/ ConvertStart
    \/ UploadResponds
    \/ ConvertResponds
    \/ PollLoop
    \/ StatusResponds
    \/ DownloadResponds
    \/ StreamEnds

\* one call of processItinerary on a stored database
Next ==
    \/ CallProcessItinerary
    \/ ResolveItinerary
    \/ ValidatePayload
    \/ ResolveCompany
    \/ SnapshotSteps
    \/ FormatData
    \/ RenderDocument
    \/ ConvertSteps

Spec == Init /\ [][Next]_vars

\* every route string up to MaxRouteLen, run through processItinerary or
\* handed to generateRouteScreenshot directly
InitRoute ==
    /\ \E r \in AllRoutes :
         \E e \in Records({Str(r)}, {PlansArray(<<>>)}, {1}) :
            e.key = "i1" /\ e.rec.wrapped /\ store = <<e>>
    /\ users = <<[id |-> U1, username |-> Alice, password |-> Secret, companyInfo |-> "company1", lastLogin |-> 0, noOfItineraries |-> 0]>>
    /\ assets = AllAssets
    /\ files = {}
    /\ InitRun

NextRoute ==
    \/ CallProcessItinerary
    \/ ResolveItinerary
    \/ ValidatePayload
    \/ ResolveCompany
    \/ CallGenerateRouteScreenshot
    \/ GenerateRouteScreenshot

SpecRoute == InitRoute /\ [][NextRoute]_vars

\* one direct call of convertDocxToPdf
InitConv ==
    /\ store = <<OtherEntry>>
    /\ users = <<>>
    /\ assets = AllAssets
    /\ files \in {{}, {docxPathOf("i1")}}
    /\ InitRun

NextConv ==
    \/ CallConvertDocxToPdf
    \/ ConvertSteps

SpecConv == InitConv /\ [][NextConv]_vars

\* every remote request returns and every timer fires
FairSpecConv == SpecConv /\ WF_vars(NextConv)

\* one direct call of generateDocument
InitRender ==
    /\ store = <<OtherEntry>>
    /\ users = <<>>
    /\ assets \in AssetSets
    /\ files \in {{}, {screenshotPathOf("i1")}}
    /\ InitRun

NextRender ==
    \/ CallGenerateDocument
    \/ GenerateDocument

SpecRender == InitRender /\ [][NextRender]_vars

\* the server with one download request, documents requested at any time
InitServe ==
    /\ \E e \in Records({Str(TwoPlaceRoute)}, {PlansArray(<<>>)}, {1}) :
         store = <<OtherEntry, e>>
    /\ users = <<[id |-> U2, username |-> Bobby, password |-> Secret, companyInfo |-> "company2", lastLogin |-> 0, noOfItineraries |-> 0], [id |-> U1, username |-> Alice, password |-> Secret, companyInfo |-> "company1", lastLogin |-> 0, noOfItineraries |-> 0]>>
    /\ assets \in {AllAssets, AllAssets \ {"logo"}}
    /\ files = {}
    /\ InitRun

NextServe ==
    \/ PostDownload
    \/ ResolveItinerary
    \/ ValidatePayload
    \/ ResolveCompany
    \/ SnapshotSteps
    \/ FormatData
    \/ RenderDocument
    \/ ConvertSteps
    \/ DownloadAnswers
    \/ GetDocument

SpecServe == InitServe /\ [][NextServe]_vars

\* the server with up to MaxRequests generate requests, overlapping or not,
\* on a new installation or on an existing store
InitGen ==
    /\ \/ store = <<>> /\ assets = AllAssets \ {"itineraries.json"}
       \/ store = <<OtherEntry>> /\ assets = AllAssets
    /\ users = <<[id |-> U1, username |-> Alice, password |-> Secret, companyInfo |-> "company1", lastLogin |-> 0, noOfItineraries |-> 0],
                 [id |-> U2, username |-> Bobby, password |-> Secret, companyInfo |-> "company2", lastLogin |-> 0, noOfItineraries |-> Len(store)]>>
    /\ files = {}
    /\ InitRun

NextGen ==
    \/ \E r \in Requests : GenReceive(r)
    \/ \E r \in Requests : GenItinerariesRead(r)
    \/ \E r \in Requests : GenItinerariesWritten(r)
    \/ \E r \in Requests : GenUsersRead(r)
    \/ \E r \in Requests : GenUsersWritten(r)
    \/ ListItineraries

SpecGen == InitGen /\ [][NextGen]_vars

\* generate requests, then the lookup of an acknowledged identifier
NextLookup ==
    \/ \E r \in Requests : GenReceive(r)
    \/ \E r \in Requests : GenItinerariesRead(r)
    \/ \E r \in Requests : GenItinerariesWritten(r)
    \/ \E r \in Requests : GenUsersRead(r)
    \/ \E r \in Requests : GenUsersWritten(r)
    \/ CallGetItineraryById

SpecLookup == InitGen /\ [][NextLookup]_vars

\* one direct call of formatItineraryData
InitFormat ==
    /\ store = <<OtherEntry>>
    /\ users = <<[id |-> U1, username |-> Alice, password |-> Secret, companyInfo |-> "company1", lastLogin |-> 0, noOfItineraries |-> 0]>>
    /\ assets = AllAssets
    /\ files = {screenshotPathOf("i1")}
    /\ InitRun

NextFormat == CallFormatItineraryData

SpecFormat == InitFormat /\ [][NextFormat]_vars

\* ------------------------------------------------------------------------
\* Vocabulary of the properties
\* ------------------------------------------------------------------------
StepOrder == <<"resolve", "validate", "company", "snapshot", "format", "render", "convert">>

IsPrefix(a, b) == Len(a) <= Len(b) /\ a = SubSeq(b, 1, Len(a))

\* the error taxonomy of the specification
NotFoundErrors ==
    {"ItineraryNotFound", "ItinerariesFileMissing", "CompanyInfoNotFound", "UsersFileMissing"}

ValidationErrors ==
    {"InvalidRoute", "InvalidDailyPlans", "InvalidRouteFormat", "TooFewPlaces",
     "InputNotFound", "OutputNotPdf"}

\* no stored record carries the identifier as key, id or payload id
NoStoredMatch(id) ==
    \A i \in 1..Len(store) :
        store[i].key # id /\ store[i].rec.id # id /\ store[i].rec.data.id # id

NonEmptyString(v) == v.t = "string" /\ Len(v.s) > 0

\* nothing was written and nothing was asked of a remote service
NothingDone == files = {} /\ partial = {} /\ reqs = NoReqs

RejectedAt(step, errs) ==
    pc = "done" /\ result = "rejected" /\ failed = step /\ error \in errs

\* a step of the pipeline failed: it threw, or its error reached no handler
StepFailed == failed # "" \/ unhandled # ""

\* ------------------------------------------------------------------------
\* The user endpoints
\* ------------------------------------------------------------------------
Usernames == {Alice, Bobby, Carol, <<"b", "o", "b">>}

Passwords == {Secret, Hunter, <<"p", "w">>}

Emails == {<<>>, <<"a", "@", "b", ".", "c">>, <<"a", "@", "b">>}

Websites == {<<>>, <<"a", ":", "b">>, <<"w", "w", "w", ".", "b">>}

RegisterBodies ==
    [username : Usernames, password : Passwords, fullName : {Alice, <<>>},
     companyName : {"company3"}, email : Emails, website : Websites]

\* outcomes of the multer upload: none, a MulterError, another error
UploadErrors == {"", "multer", "fileFilter"}

\* POST /api/register.  dbOk is whether the calls of the database return.
PostRegister ==
    /\ Len(users) < MaxUsers
    /\ \E uploadErr \in UploadErrors, body \in RegisterBodies, dbOk \in BOOLEAN :
         IF registerRejection(uploadErr, body) # NoUserResponse
         THEN /\ userRes' = registerRejection(uploadErr, body)
              /\ UNCHANGED <<users, assets, clock>>
         ELSE IF ~dbOk
         THEN /\ userRes' = userError("register", 500, "Registration failed", <<>>)
              /\ UNCHANGED <<users, assets, clock>>
         ELSE IF matching(users, [username |-> body.username]) # {}
         THEN /\ userRes' = userError("register", 400, "Username already exists", <<>>)
              /\ UNCHANGED <<users, assets, clock>>
         ELSE /\ clock' = clock + 1
              /\ users' = Append(users, newUser(clock', body))
              /\ assets' = assets \cup {"users.json"}
              /\ userRes' = userAnswer("register", 201, <<withoutPassword(newUser(clock', body))>>)
    /\ UNCHANGED <<store, runVars, gdArgs, dlReq, dlRes, docRes, gen, overlapped, ioLog, listRes>>

\* POST /api/login
PostLogin ==
    /\ \E username \in Usernames, password \in Passwords, dbOk \in BOOLEAN :
         LET found == matching(users, [username |-> username, password |-> password])
             user == users[first(found)]
             updatedUser == [user EXCEPT !.lastLogin = clock]
         IN  IF ~dbOk
             THEN /\ userRes' = userError("login", 500, "Failed to process login", <<>>)
                  /\ UNCHANGED users
             ELSE IF found = {}
             THEN /\ userRes' = userError("login", 401, "Invalid username or password", <<>>)
                  /\ UNCHANGED users
             ELSE /\ users' = [users EXCEPT ![first(found)] = updatedUser]
                  /\ userRes' = userAnswer("login", 200, <<withoutPassword(updatedUser)>>)
    /\ UNCHANGED <<store, assets, runVars, gdArgs, dlReq, dlRes, docRes, genVars>>

\* GET /api/data/users.json
GetUsersJson ==
    /\ userRes' = usersJsonResponse(assets, users)
    /\ UNCHANGED <<envVars, runVars, gdArgs, dlReq, dlRes, docRes, genVars>>

InitUsers ==
    /\ InitRun
    /\ store = <<>>
    /\ files = {}
    /\ \/ /\ assets = AllAssets \ {"users.json"}
          /\ users = <<>>
       \/ /\ assets = AllAssets
          /\ users \in {<<>>, <<newUser(clock, [username |-> Alice, password |-> Secret,
                                               companyName |-> "company1"])>>}

NextUsers == PostRegister \/ PostLogin \/ GetUsersJson

SpecUsers == InitUsers /\ [][NextUsers]_vars

\* ------------------------------------------------------------------------
\* C1: processItinerary starts its steps in the fixed order, each only after
\* the one before succeeded; once a step has failed the pipeline is rejected
\* (with no later step started) and it reports success only after all seven
\* steps succeeded.
\* ------------------------------------------------------------------------
C1_Claim ==
    caller = "pipeline" =>
        /\ IsPrefix(started, StepOrder)
        /\ StepFailed => result = "rejected"
        /\ result = "success" => started = StepOrder /\ ~StepFailed

\* ------------------------------------------------------------------------
\* C2: a processItinerary run for an identifier that matches no stored
\* itinerary writes no file, sends no remote request, never succeeds, and
\* once the lookup has run it is rejected at the resolve step with a
\* not-found error.
\* ------------------------------------------------------------------------
C2_MissingIdRejected ==
    (caller = "pipeline" /\ NoStoredMatch(reqId)) =>
        /\ NothingDone
        /\ dirs = {}
        /\ result # "success"
        /\ pc # "resolve" => RejectedAt("resolve", NotFoundErrors)

C2_Witness ==
    /\ caller = "pipeline"
    /\ reqId = "i9"
    /\ pc = "done"
    /\ error = "ItineraryNotFound"

\* ------------------------------------------------------------------------
\* C3 as stated: once validation has run on a resolved itinerary whose route
\* is not a non-empty string or whose daily plans are not a non-empty
\* sequence, the run is rejected with a validation error before the company
\* lookup, any request and any file write.
\* ------------------------------------------------------------------------
C3_Claim ==
    (caller = "pipeline" /\ itinerary # <<>> /\ pc # "validate") =>
        LET d == itinerary[1].data
        IN  (~NonEmptyString(d.route)
                \/ ~(d.dailyPlans.t = "array" /\ Len(d.dailyPlans.a) > 0)) =>
                /\ RejectedAt("validate", ValidationErrors)
                /\ companyInfo = ""
                /\ NothingDone

\* ------------------------------------------------------------------------
\* C3 as amended: the run is rejected with a validation error, before the
\* company lookup, any request and any file write, exactly when the route is
\* not a non-empty string or the daily plans are missing or not an array; an
\* empty array of daily plans passes validation.
\* ------------------------------------------------------------------------
C3_ValidationRejects ==
    (caller = "pipeline" /\ itinerary # <<>> /\ pc # "validate") =>
        LET d == itinerary[1].data
        IN  IF ~NonEmptyString(d.route) \/ d.dailyPlans.t # "array"
            THEN /\ RejectedAt("validate", ValidationErrors)
                 /\ companyInfo = ""
                 /\ "company" \notin {started[i] : i \in 1..Len(started)}
                 /\ NothingDone
            ELSE failed # "validate"

C3_Witness ==
    /\ caller = "pipeline"
    /\ RejectedAt("validate", {"InvalidDailyPlans"})
    /\ itinerary[1].data.dailyPlans = PlansNonArray

\* ------------------------------------------------------------------------
\* C4: whenever a route of n >= 2 places is handed to the map snapshot
\* client, the string sent is '&start;' p1, then '&' pi for each middle
\* place in order, then '&end;' pn and nothing else; the Colombo example and
\* the two-place route "A - B" give the strings of the specification.
\* ------------------------------------------------------------------------
RECURSIVE MiddlePart(_)
MiddlePart(ps) ==
    IF ps = <<>> THEN <<>> ELSE <<"&">> \o Head(ps) \o MiddlePart(Tail(ps))

ExpectedEncoding(ps) ==
    <<"&", "s", "t", "a", "r", "t", ";">> \o ps[1]
        \o MiddlePart(SubSeq(ps, 2, Len(ps) - 1))
        \o <<"&", "e", "n", "d", ";">> \o ps[Len(ps)]

ColomboEncoded ==
    <<"&", "s", "t", "a", "r", "t", ";", "C", "o", "l", "o", "m", "b", "o",
      "&", "A", "k", "k", "a", "r", "a", "i", "p", "a", "t", "t", "u",
      "&", "e", "n", "d", ";", "M", "a", "t", "a", "r", "a">>

TwoPlaceEncoded == <<"&", "s", "t", "a", "r", "t", ";", "A", "&", "e", "n", "d", ";", "B">>

C4_Claim ==
    sentRoute # <<>> =>
        /\ sentRoute[1] = ExpectedEncoding(places(shotArg.s))
        /\ store[Len(store)].rec.data.route = Str(ColomboRoute) => sentRoute[1] = ColomboEncoded
        /\ store[Len(store)].rec.data.route = Str(TwoPlaceRoute) => sentRoute[1] = TwoPlaceEncoded

\* ------------------------------------------------------------------------
\* C5: once generateRouteScreenshot has acted, it has rejected with a
\* validation error, with no capture request sent and no file written, if
\* its route has fewer than two places; if the route has two places or more
\* it has not thrown a validation error and the capture request was sent.
\* ------------------------------------------------------------------------
IsBlank(p) == \A i \in 1..Len(p) : IsSpace(p[i])

\* the hyphen-separated segments of a route that name a place
PlaceCount(v) ==
    IF v.t # "string" THEN 0
    ELSE LET segs == split(v.s, <<"-">>)
         IN  Cardinality({i \in 1..Len(segs) : ~IsBlank(segs[i])})

ScreenshotActed == pc \notin {"idle", "resolve", "validate", "company", "snapshot"} /\ failed \in {"", "snapshot"}

C5_TooFewPlacesRejected ==
    ScreenshotActed =>
        IF PlaceCount(shotArg) < 2
        THEN /\ RejectedAt("snapshot", ValidationErrors)
             /\ sentRoute = <<>>
             /\ reqs.capture = 0
             /\ files = {}
        ELSE /\ error \notin ValidationErrors
             /\ sentRoute # <<>>
             /\ reqs.capture = 1

C5_Witness ==
    /\ RejectedAt("snapshot", {"TooFewPlaces"})
    /\ PlaceCount(shotArg) = 1
    /\ reqs.capture = 0

\* ------------------------------------------------------------------------
\* C6: once the company lookup has run, the run is rejected with a not-found
\* error, with nothing written and nothing requested, if no user record
\* matching the owner of the itinerary carries company info; otherwise the
\* lookup succeeded with the company info of a user record that matches the
\* owner.
\* ------------------------------------------------------------------------
StartedSteps == {started[i] : i \in 1..Len(started)}

OwnerRecords(owner) ==
    {i \in 1..Len(users) : users[i].id = owner \/ users[i].id = <<"user_">> \o owner}

C6_CompanyLookup ==
    (caller = "pipeline" /\ "company" \in StartedSteps) =>
        LET withInfo == {i \in OwnerRecords(itinerary[1].userId) : users[i].companyInfo # ""}
        IN  IF "users.json" \notin assets \/ withInfo = {}
            THEN /\ RejectedAt("company", NotFoundErrors)
                 /\ companyInfo = ""
                 /\ NothingDone
            ELSE /\ failed # "company"
                 /\ companyInfo \in {users[i].companyInfo : i \in withInfo}

C6_Witness ==
    /\ caller = "pipeline"
    /\ RejectedAt("company", {"CompanyInfoNotFound"})
    /\ OwnerRecords(itinerary[1].userId) # {}

\* ------------------------------------------------------------------------
\* C7: a call of the map snapshot client settles: resolved only after a
\* successful capture request and a successful image request, with the
\* screenshot written; rejected, with the call that awaits it, when the
\* image request ends in a network error; and on a rejection no screenshot
\* is written and no request is sent twice.
\* ------------------------------------------------------------------------
C7_Claim ==
    /\ sswebP = "resolved" =>
          reqs.capture = 1 /\ reqs.image = 1 /\ screenshotPathOf(reqId) \in files
    /\ unhandled = "ImageFetchError" => sswebP = "rejected" /\ result = "rejected"
    /\ sswebP = "rejected" =>
          /\ screenshotPathOf(reqId) \notin files
          /\ reqs.capture = 1 /\ reqs.image <= 1
          /\ result = "rejected"

\* ------------------------------------------------------------------------
\* C8: convertDocxToPdf requests the download, writes the output file and
\* resolves only after a status poll reported 'done'; a failed upload, a
\* conversion without job id, a 'failed' status and exhausted attempts each
\* end in a rejection with no download request and no output file.
\* ------------------------------------------------------------------------
LastPoll == IF polled = <<>> THEN "" ELSE polled[Len(polled)]

PolledStatuses == {polled[i] : i \in 1..Len(polled)}

C8_DoneOnlySuccess ==
    /\ reqs.download > 0 => LastPoll = "done" /\ reqs.download = 1
    /\ convOut \in files => LastPoll = "done" /\ reqs.download = 1
    /\ convP = "resolved" =>
          LastPoll = "done" /\ convOut \in files /\ convOut \notin partial
    /\ (caller = "convert" /\ result = "success") => convP = "resolved"
    /\ (\/ error \in {"UploadFailed", "ConversionNotStarted",
                      "ConversionFailedOnServer", "ConversionTimeout"}
        \/ "failed" \in PolledStatuses
        \/ (Len(polled) = maxAttempts /\ LastPoll = "converting")) =>
          /\ convP = "rejected" /\ result = "rejected"
          /\ reqs.download = 0
          /\ convOut \notin files

C8_Witness ==
    /\ convP = "resolved"
    /\ convOut \in files
    /\ LastPoll = "done"
    /\ Len(polled) > 1

\* ------------------------------------------------------------------------
\* C9: a call of convertDocxToPdf sends at most 30 status polls, each after
\* one sleep of 2000 ms; it rejects with the timeout error exactly when 30
\* polls returned and none reported 'done' or 'failed'; 'done' on the 30th
\* poll leads to the download, not to a timeout; and when every request
\* returns and every timer fires, the poll loop is left: by 'done', by
\* 'failed', by the timeout or by the error of a status request.
\* ------------------------------------------------------------------------
InPollLoop == pc \in {"conv_loop", "conv_status"}

PollLoopLeft ==
    /\ pc \in {"conv_download", "conv_stream", "done", "hung"}
    /\ \/ LastPoll = "done"
       \/ error \in {"ConversionFailedOnServer", "ConversionTimeout", "NetworkError"}

C9_Safety ==
    /\ reqs.status <= maxAttempts
    /\ attempts = reqs.status
    /\ slept = sleepMs * reqs.status
    /\ Len(polled) <= reqs.status
    /\ error = "ConversionTimeout" <=>
          (Len(polled) = maxAttempts /\ PolledStatuses \cap {"done", "failed"} = {})
    /\ (Len(polled) = maxAttempts /\ LastPoll = "done") =>
          error # "ConversionTimeout" /\ reqs.download = 1

C9_PollingBounded == []C9_Safety /\ (InPollLoop ~> PollLoopLeft)

C9_Witness ==
    /\ Len(polled) = maxAttempts
    /\ LastPoll = "done"
    /\ pc = "conv_download"
    /\ slept = 60000

\* ------------------------------------------------------------------------
\* C10: once convertDocxToPdf has checked its arguments, a call whose output
\* path does not end in '.pdf' or whose input file does not exist is
\* rejected with a validation failure, no remote request was sent and the
\* output file was not created.
\* ------------------------------------------------------------------------
EndsInPdf(p) ==
    /\ Len(p) >= 4
    /\ p[Len(p) - 3] = "." /\ p[Len(p) - 2] = "p" /\ p[Len(p) - 1] = "d" /\ p[Len(p)] = "f"

C10_ConvertValidation ==
    (/\ caller = "convert"
     /\ pc # "convert"
     /\ (~EndsInPdf(convOut) \/ docxPathOf(reqId) \notin files)) =>
        /\ RejectedAt("convert", {"InputNotFound", "OutputNotPdf"})
        /\ convP = "rejected"
        /\ reqs = NoReqs
        /\ convOut \notin files
        /\ partial = {}

C10_Witness ==
    /\ caller = "convert"
    /\ RejectedAt("convert", {"OutputNotPdf"})
    /\ docxPathOf(reqId) \in files
    /\ convOut # <<>>

\* ------------------------------------------------------------------------
\* C11
\* ------------------------------------------------------------------------
\* a required option of the call is missing
MissingOption ==
    \/ gdArgs.templatePath = <<>> \/ ~gdArgs.data.present
    \/ ~gdArgs.images.present \/ gdArgs.outputPath = <<>>

\* an image the data refers to has no configured path, or no file
BrokenImage ==
    \E i \in 1..Len(gdArgs.data.refs) :
        LET p == gdArgs.images.paths[gdArgs.data.refs[i]]
        IN  p = NoPath \/ (p # <<"logo">> /\ p \notin files) \/ (p = <<"logo">> /\ "logo" \notin assets)

GdReturned == caller = "render" /\ pc = "done"

\* C11: generateDocument rejects and writes neither the output file nor its
\* directory when an option is missing, the template file is missing or an
\* image of the data has no path or no file; whenever the output file or
\* its directory is written, the call has rendered and resolved.
C11_RejectsWithoutWriting ==
    caller = "render" =>
        /\ (GdReturned /\ (MissingOption \/ "template.docx" \notin assets \/ BrokenImage))
              => /\ result = "rejected"
                 /\ gdArgs.outputPath \notin files
                 /\ dirs = {}
        /\ (gdArgs.outputPath \in files \/ dirs # {})
              => GdReturned /\ result = "success" /\ error = ""

\* a call with all options and an existing template was rejected for an
\* image whose file does not exist, and nothing was written
C11_Witness ==
    /\ GdReturned
    /\ ~MissingOption
    /\ "template.docx" \in assets
    /\ error = "ImageNotFound"
    /\ result = "rejected"
    /\ gdArgs.outputPath \notin files

\* ------------------------------------------------------------------------
\* C12
\* ------------------------------------------------------------------------
PdfName(id) == <<id, ".", "p", "d", "f">>

InTempStore(filename) == (<<"db/temp/tempStore/">> \o filename) \in files

\* C12: when POST /api/download has answered success for identifier X, the
\* returned path is /document/X.pdf and the PDF and the DOCX of X are in the
\* temp store, the PDF written to its end; a GET of /document/X.pdf made
\* after that answer streams the complete file as application/pdf; a GET
\* of a name absent from the temp store answers 404.
C12_DownloadThenServe ==
    /\ [](dlRes.status = 200 =>
            /\ dlRes.itineraryPath = <<"/document/">> \o PdfName(reqId)
            /\ pdfPathOf(reqId) \in files \ partial
            /\ docxPathOf(reqId) \in files)
    /\ [][(docRes' # docRes /\ dlRes.status = 200 /\ docRes'.filename = PdfName(reqId))
            => /\ docRes'.status = 200
               /\ docRes'.contentType = "application/pdf"
               /\ docRes'.complete]_vars
    /\ [][(docRes' # docRes /\ ~InTempStore(docRes'.filename))
            => docRes'.status = 404]_vars

\* success was answered for i1 and the following GET served its PDF
C12_Witness ==
    /\ dlRes.status = 200
    /\ reqId = "i1"
    /\ docRes.filename = PdfName("i1")
    /\ docRes.status = 200
    /\ docRes.complete

\* ------------------------------------------------------------------------
\* C13
\* ------------------------------------------------------------------------
Quiet == \A r \in Requests : ~Running(gen[r])

Acked(r) == gen[r].status = 201

StoredUnder(userId) == {i \in 1..Len(store) : store[i].user = userId}

\* C13: once the generate requests of a run without overlap are answered,
\* the itinerary count of every user equals the number of itineraries
\* stored under that user, and an acknowledged itinerary is stored.
C13_Claim ==
    (Quiet /\ ~overlapped) =>
        /\ \A i \in 1..Len(users) :
              users[i].noOfItineraries = Cardinality(StoredUnder(users[i].id))
        /\ \A r \in Requests :
              Acked(r) => \E i \in 1..Len(store) : store[i].key = gen[r].itineraryId

\* ------------------------------------------------------------------------
\* C14
\* ------------------------------------------------------------------------
\* the record of request r as the caller knows it
IsRecordOf(e, r) ==
    /\ e.user = gen[r].userId
    /\ e.key = gen[r].itineraryId
    /\ e.rec.id = gen[r].itineraryId
    /\ e.rec.data = gen[r].data
    /\ e.rec.timestamp = gen[r].timestamp
    /\ e.rec.lastModified = gen[r].timestamp

\* C14: while no two generate requests have overlapped, every acknowledged
\* request has exactly one record under (userId -> itineraryId), carrying
\* the identifier returned and the payload sent; a write adds one record
\* and leaves every record stored before unchanged; a request is answered
\* 400 exactly when it has no userId, and leaves the store unchanged.
C14_SequentialGenerate ==
    /\ [](~overlapped =>
            \A r \in Requests :
                /\ Acked(r) =>
                      /\ Cardinality({i \in StoredUnder(gen[r].userId) :
                                         store[i].key = gen[r].itineraryId}) = 1
                      /\ \E i \in 1..Len(store) : IsRecordOf(store[i], r)
                /\ gen[r].status = 400 <=> (gen[r].pc = "done" /\ gen[r].userId = <<>>))
    /\ [][~overlapped' =>
            /\ \A i \in 1..Len(store) : \E j \in 1..Len(store') : store'[j] = store[i]
            /\ store' # store => Len(store') = Len(store) + 1]_vars
    /\ [][(\E r \in Requests : gen'[r].status = 400 /\ gen[r].status # 400)
            => store' = store]_vars

\* two requests of one user, one after the other, are both acknowledged
\* and both stored
C14_Witness ==
    /\ ~overlapped
    /\ \E r, q \in Requests :
         /\ r # q /\ Acked(r) /\ Acked(q)
         /\ gen[r].userId = U1 /\ gen[q].userId = U1
         /\ \E i, j \in 1..Len(store) :
              i # j /\ IsRecordOf(store[i], r) /\ IsRecordOf(store[j], q)

\* ------------------------------------------------------------------------
\* C15
\* ------------------------------------------------------------------------
\* C15: every GET /api/itineraries with a userId answers with exactly the
\* records stored under that user, newest first, and their number as count
\* (the empty list and 0 for a user without itineraries).
C15_Claim ==
    [][(listRes' # listRes /\ listRes'.userId # <<>>) =>
        LET mine == StoredUnder(listRes'.userId)
            list == listRes'.itineraries
        IN  /\ listRes'.status = 200
            /\ Len(list) = Cardinality(mine)
            /\ {list[i] : i \in 1..Len(list)} = {store[i].rec : i \in mine}
            /\ \A i, j \in 1..Len(list) : i < j => list[i].timestamp >= list[j].timestamp
            /\ listRes'.count = Len(list)]_vars

\* ------------------------------------------------------------------------
\* C16
\* ------------------------------------------------------------------------
Logged(op, r) == \E i \in 1..Len(ioLog) : ioLog[i] = [op |-> op, r |-> r]

At(op, r) == CHOOSE i \in 1..Len(ioLog) : ioLog[i] = [op |-> op, r |-> r]

\* the record request r wrote is no longer in the store
Lost(r) ==
    /\ Logged("write", r)
    /\ ~\E i \in 1..Len(store) : store[i].key = gen[r].itineraryId

\* C16: a record that was written is missing from the store only by a
\* stale write: another request read itineraries.json before that record
\* was written and wrote the file after it.  The store has no other
\* protection: the last writer wins.
C16_LastWriterWins ==
    \A r \in Requests :
        Lost(r) =>
            \E q \in Requests \ {r} :
                /\ Logged("write", q)
                /\ At("read", q) < At("write", r)
                /\ At("write", r) < At("write", q)

\* an itinerary acknowledged with 201 is absent from the store
C16_Witness == \E r \in Requests : Acked(r) /\ Lost(r)

\* ------------------------------------------------------------------------
\* C17
\* ------------------------------------------------------------------------
\* the route of the resolved itinerary, as stored
StoredRoute == itineraryData(itinerary[1]).route.s

\* processItinerary has prepared the route for generateRouteScreenshot
RoutePrepared == caller = "pipeline" /\ shotArg # Undefined

\* a place without its leading and trailing whitespace
RECURSIVE trim(_)
trim(p) ==
    IF p = <<>> THEN p
    ELSE IF IsSpace(Head(p)) THEN trim(Tail(p))
    ELSE IF IsSpace(p[Len(p)]) THEN trim(SubSeq(p, 1, Len(p) - 1))
    ELSE p

\* C17: when the stored route has at least two hyphen-separated places, the
\* route handed to generateRouteScreenshot has the same places, the first
\* with all its whitespace removed and every other one with its internal
\* whitespace exactly as stored.
C17_Claim ==
    (RoutePrepared /\ Len(places(StoredRoute)) >= 2) =>
        LET before == places(StoredRoute)
            after == places(shotArg.s)
        IN  /\ Len(after) = Len(before)
            /\ after[1] = removeSpaces(before[1])
            /\ \A i \in 2..Len(before) : trim(after[i]) = trim(before[i])

\* ------------------------------------------------------------------------
\* C18
\* ------------------------------------------------------------------------
Formatted == caller = "format" /\ pc = "done"

FormatInput == itineraryData(itinerary[1])

FormatPlans == FormatInput.dailyPlans.a

\* the hotel name of a day as the claim resolves it
ResolvedHotel(day) == IF day.hotel = "custom" THEN day.customHotel ELSE day.hotel

StaysWithHotel(day) == day.overnightStay /\ ResolvedHotel(day) # ""

\* C18: the accommodation table holds, in day order, exactly the days with
\* overnight stay and a non-empty resolved hotel name, each with its place
\* and that name; no row has an empty accommodation.
C18_Claim ==
    Formatted =>
        LET days == SelectSeq(FormatPlans, StaysWithHotel)
            rows == formatted[1].aTable
        IN  /\ Len(rows) = Len(days)
            /\ \A i \in 1..Len(rows) :
                  /\ i <= Len(days) =>
                        /\ rows[i].aCity = days[i].place
                        /\ rows[i].accomodation = ResolvedHotel(days[i])
                  /\ rows[i].accomodation # ""

\* ------------------------------------------------------------------------
\* C19
\* ------------------------------------------------------------------------
\* the calendar, stated apart from the date arithmetic of the program
CalendarDays(y, m) ==
    IF m \in {1, 3, 5, 7, 8, 10, 12} THEN 31
    ELSE IF m # 2 THEN 30
    ELSE IF y % 400 = 0 \/ (y % 4 = 0 /\ y % 100 # 0) THEN 29
    ELSE 28

NextDay(date) ==
    IF date.d < CalendarDays(date.y, date.m) THEN [date EXCEPT !.d = @ + 1]
    ELSE IF date.m < 12 THEN [y |-> date.y, m |-> date.m + 1, d |-> 1]
    ELSE [y |-> date.y + 1, m |-> 1, d |-> 1]

\* k days later: within the month, or on from the first day of the next
RECURSIVE AddDays(_, _)
AddDays(date, k) ==
    LET left == CalendarDays(date.y, date.m) - date.d
    IN  IF k <= left THEN [date EXCEPT !.d = @ + k]
        ELSE AddDays(NextDay([date EXCEPT !.d = @ + left]), k - left - 1)

\* C19: for N daily plans the summary and the detail sequence have N
\* entries each, in the order of the plans; entry i (from 0) is labelled
\* Day i+1, names the place of plan i, and its date is the start date plus
\* i days.
C19_DayEntries ==
    Formatted =>
        LET N == Len(FormatPlans)
            out == formatted[1]
        IN  /\ Len(out.itbTable) = N
            /\ Len(out.iDetail) = N
            /\ \A i \in 0..(N - 1) :
                  /\ out.itbTable[i + 1].dayNumber = "Day " \o ToString(i + 1)
                  /\ out.itbTable[i + 1].place = FormatPlans[i + 1].place
                  /\ out.iDetail[i + 1].iDetailTitle =
                        "Day " \o ToString(i + 1) \o " - " \o FormatPlans[i + 1].place \o " ("
                        \o formatDateForDisplay(AddDays(FormatInput.tourStartDate, i)) \o ")"

\* two plans from 31 Dec 2023: the second entry is dated in the next year
C19_Witness ==
    /\ Formatted
    /\ Len(FormatPlans) = 2
    /\ FormatPlans[1].place = "Kandy" /\ FormatPlans[2].place = "Galle"
    /\ formatted[1].iDetail[1].iDetailTitle = "Day 1 - Kandy (31 Dec 2023)"
    /\ formatted[1].iDetail[2].iDetailTitle = "Day 2 - Galle (1 Jan 2024)"

\* ------------------------------------------------------------------------
\* C20
\* ------------------------------------------------------------------------
\* C20: for a day count d >= 1 the total nights are d - 1, the total days
\* are d, and the end of the travel period, which is also the departure
\* date, is the start date plus d - 1 days.
C20_Totals ==
    (Formatted /\ FormatInput.numberOfDays >= 1) =>
        LET d == FormatInput.numberOfDays
            last == AddDays(FormatInput.tourStartDate, d - 1)
            out == formatted[1]
        IN  /\ out.totalNights = ToString(d - 1)
            /\ out.totalDays = ToString(d)
            /\ out.departureDate = formatDateForDisplay(last)
            /\ out.travelDatePeriod =
                  formatDateForDisplay(FormatInput.tourStartDate) \o " - "
                  \o formatDateForDisplay(last)

\* one day from 28 Feb 2024: no night, departure on the day of arrival;
\* else 367 days from 28 Feb 2023, ending on 29 Feb 2024
C20_Witness ==
    /\ Formatted
    /\ \/ /\ FormatInput.numberOfDays = 1
          /\ formatted[1].totalNights = "0"
          /\ formatted[1].departureDate = "28 Feb 2024"
       \/ /\ FormatInput.numberOfDays = 367
          /\ formatted[1].totalNights = "366"
          /\ formatted[1].departureDate = "29 Feb 2024"

\* ------------------------------------------------------------------------
\* C21
\* ------------------------------------------------------------------------
LookedUp == caller = "lookup" /\ pc = "done"

KeyedBy(id) == {i \in 1..Len(store) : store[i].key = id}

\* C21: when the record of an acknowledged identifier X is in the store,
\* getItineraryById(X) returns that record: its id is X, its payload is the
\* payload stored under key X and its userId is the user the key is nested
\* under, whatever the payloads of the other itineraries contain.
C21_Claim ==
    (LookedUp /\ KeyedBy(reqId) # {}) =>
        /\ itinerary # <<>>
        /\ \A i \in KeyedBy(reqId) :
              /\ itinerary[1].id = reqId
              /\ itinerary[1].id = store[i].rec.id
              /\ itinerary[1].data = store[i].rec.data
              /\ itinerary[1].userId = store[i].user

\* ------------------------------------------------------------------------
\* C22
\* ------------------------------------------------------------------------
\* C22: no response of the user endpoints carries a password: every user
\* object in the body of a response of POST /api/register, POST /api/login
\* or GET /api/data/users.json is without the password field.
C22_Claim ==
    \A i \in 1..Len(userRes.body) : "password" \notin DOMAIN userRes.body[i]

====
